---------------------------- MODULE Spec2Model ----------------------------
(***************************************************************************)
(* Model of app/digits/neural/preprocessing.py: preprocess_image (the      *)
(* digit image normalisation pipeline), get_best_shift and shift.          *)
(*                                                                         *)
(* A numpy array is a record [shape |-> <<rows, cols>>, data |-> rows],    *)
(* data a sequence of rows, each a sequence of intensities 0..255. The     *)
(* record keeps the shape of an array with no rows, as numpy does          *)
(* ((0, 28) after every row was sliced away).  Sequences are 1-based, the  *)
(* source's indices 0-based; comments give the source's index.             *)
(*                                                                         *)
(* Floats: every float the code rounds is a quotient of two integers that  *)
(* fit 32 bits, so it is kept as an exact fraction and rounded as          *)
(* Python's round / np.round do (half to even).  On the 28x28 domain the   *)
(* double results agree with the exact ones: a tie k + 1/2 is a double,    *)
(* and a non-tie is at least 1/(2*mass) away from one.                     *)
(***************************************************************************)
EXTENDS Integers, Sequences, FiniteSets, TLC

VARIABLES
    pc,            \* position in preprocess_image (or in the aligner driver)
    original,      \* shape <<rows, cols>> of the opened image (line 15)
    mask,          \* the array threshold returned (line 22), kept for reference
    img,           \* the local img
    rows, cols,    \* the locals rows, cols (line 35 on)
    rows_padding,  \* line 49: <<before, after>>
    cols_padding,  \* line 48: <<before, after>>
    shiftx, shifty,\* line 53
    calls,         \* one record per shift(img, sx, sy) call made so far
    error,         \* the exception that ended the call, or "none"
    result         \* the returned tensor, or NoTensor

vars == <<pc, original, mask, img, rows, cols, rows_padding, cols_padding,
          shiftx, shifty, calls, error, result>>

-----------------------------------------------------------------------------
(* Bounds of the model. *)

\* foreground pixels of a drawn binary mask, at most
MaxPixels == 2
\* non-zero pixels of a canvas drawn for the aligner, at most
MaxDots == 2

-----------------------------------------------------------------------------
(* Program constants. *)

Side == 28          \* cv2.resize(255-img, (28, 28)); the padding target
Target == 20        \* factor = 20.0 / rows; rows = 20
White == 255        \* maxval of cv2.threshold; img / 255.0
MeanE4 == 1307      \* Normalize mean 0.1307, times 10^4
StdE4 == 3081       \* Normalize std 0.3081, times 10^4
CoefBits == 11      \* cv2 INTER_RESIZE_COEF_BITS

NoTensor == [shape |-> <<>>, den |-> 1, data |-> <<>>]
Unset == [shape |-> <<0, 0>>, data |-> <<>>]

-----------------------------------------------------------------------------
(* Arithmetic. *)

Abs(x) == IF x < 0 THEN -x ELSE x

Min(a, b) == IF a < b THEN a ELSE b

RECURSIVE Pow2(_)
Pow2(n) == IF n = 0 THEN 1 ELSE 2 * Pow2(n - 1)

\* floor(n / d), d > 0
Floor(n, d) == n \div d

\* math.ceil(n / d), d > 0
Ceil(n, d) == -((-n) \div d)

\* round(n / d), d > 0, ties to the even neighbour: Python 3 round, np.round,
\* cvRound
Round(n, d) ==
    LET q == n \div d
        r == n - q * d
    IN  IF 2 * r < d THEN q
        ELSE IF 2 * r > d THEN q + 1
        ELSE IF q % 2 = 0 THEN q ELSE q + 1

-----------------------------------------------------------------------------
(* numpy. *)

\* an array of r rows and c columns from its rows
Array(r, c, d) == [shape |-> <<r, c>>, data |-> d]

RECURSIVE SumTo(_, _)
SumTo(s, n) == IF n = 0 THEN 0 ELSE s[n] + SumTo(s, n - 1)

\* np.sum of a one-dimensional array
NpSum(s) == SumTo(s, Len(s))

\* img[:, j]
Column(a, j) == [i \in 1..a.shape[1] |-> a.data[i][j]]

\* np.sum(img)
Total(a) == NpSum([i \in 1..a.shape[1] |-> NpSum(a.data[i])])

\* img[1:]
DropFirstRow(a) ==
    [shape |-> <<a.shape[1] - 1, a.shape[2]>>, data |-> Tail(a.data)]

\* img[:-1]
DropLastRow(a) ==
    [shape |-> <<a.shape[1] - 1, a.shape[2]>>,
     data |-> SubSeq(a.data, 1, a.shape[1] - 1)]

\* np.delete(img, 0, 1)
DropFirstColumn(a) ==
    [shape |-> <<a.shape[1], a.shape[2] - 1>>,
     data |-> [i \in 1..a.shape[1] |-> Tail(a.data[i])]]

\* np.delete(img, -1, 1)
DropLastColumn(a) ==
    [shape |-> <<a.shape[1], a.shape[2] - 1>>,
     data |-> [i \in 1..a.shape[1] |-> SubSeq(a.data[i], 1, a.shape[2] - 1)]]

\* np.lib.pad(img, (rp, cp), 'constant')
NpPad(a, rp, cp) ==
    LET r == rp[1] + a.shape[1] + rp[2]
        c == cp[1] + a.shape[2] + cp[2]
    IN  Array(r, c,
              [i \in 1..r |-> [j \in 1..c |->
                  IF /\ i > rp[1] /\ i <= rp[1] + a.shape[1]
                     /\ j > cp[1] /\ j <= cp[1] + a.shape[2]
                  THEN a.data[i - rp[1]][j - cp[1]]
                  ELSE 0]])


-----------------------------------------------------------------------------
(* OpenCV and scipy, as called by the pipeline. *)

\* cv2.resize, INTER_LINEAR, 8-bit: the source taps and the fixed-point
\* weights (scaled by 2^CoefBits) of destination index d (0-based) on an axis
\* scaled from ssize to dsize.  fx = (d + 0.5) * ssize / dsize - 0.5.
ResizeTap(d, ssize, dsize) ==
    LET num == (2 * d + 1) * ssize - dsize
        den == 2 * dsize
        fl == Floor(num, den)
        clamped == fl < 0 \/ fl >= ssize - 1
        s == IF fl < 0 THEN 0 ELSE Min(fl, ssize - 1)
        fr == IF clamped THEN 0 ELSE num - fl * den
    IN  [s0 |-> s + 1,
         s1 |-> Min(s + 1, ssize - 1) + 1,
         a0 |-> Round((den - fr) * Pow2(CoefBits), den),
         a1 |-> Round(fr * Pow2(CoefBits), den)]

\* cv2.resize(img, (dw, dh)): horizontal pass in integers, vertical pass
\* with the 8-bit cast uchar((((b0 * (S0 >> 4)) >> 16) + ((b1 * (S1 >> 4)) >> 16) + 2) >> 2)
CvResize(a, dw, dh) ==
    LET xt == [x \in 1..dw |-> ResizeTap(x - 1, a.shape[2], dw)]
        yt == [y \in 1..dh |-> ResizeTap(y - 1, a.shape[1], dh)]
        H(i, x) == a.data[i][xt[x].s0] * xt[x].a0 + a.data[i][xt[x].s1] * xt[x].a1
        V(y, x) == ((yt[y].a0 * (H(yt[y].s0, x) \div 16)) \div 65536
                    + (yt[y].a1 * (H(yt[y].s1, x) \div 16)) \div 65536 + 2) \div 4
    IN  IF a.shape = <<dh, dw>>
        THEN a
        ELSE Array(dh, dw, [y \in 1..dh |-> [x \in 1..dw |-> V(y, x)]])

\* cv2.warpAffine(img, [[1, 0, sx], [0, 1, sy]], (cols, rows)): dst(x, y) =
\* src(x - sx, y - sy), constant border 0
CvWarpAffine(a, sx, sy, dw, dh) ==
    Array(dh, dw,
          [i \in 1..dh |-> [j \in 1..dw |->
              IF /\ i - sy >= 1 /\ i - sy <= a.shape[1]
                 /\ j - sx >= 1 /\ j - sx <= a.shape[2]
              THEN a.data[i - sy][j - sx]
              ELSE 0]])

\* the sums ndimage.center_of_mass divides: the mass and the first moments
\* over the 0-based row (my) and column (mx) indices
Moments(a) ==
    [m  |-> Total(a),
     my |-> NpSum([i \in 1..a.shape[1] |-> (i - 1) * NpSum(a.data[i])]),
     mx |-> NpSum([j \in 1..a.shape[2] |-> (j - 1) * NpSum(Column(a, j))])]

\* what nan.astype(int) can give: the cast is undefined; x86-64 builds give
\* the most negative integer (stood for by -2^30, which moves every pixel off
\* the canvas as well), aarch64 builds give 0
NanAsInt == {0, -Pow2(30)}

\* int(n / d): the quotient cut toward zero, d > 0
Trunc(n, d) == IF n >= 0 THEN n \div d ELSE -((-n) \div d)

\* get_best_shift with np.round left out: astype(int) alone cuts toward zero
get_best_shift_cut(a) ==
    LET c == Moments(a)
    IN  IF c.m = 0
        THEN NanAsInt \X NanAsInt
        ELSE {<<Trunc(a.shape[2] * c.m - 2 * c.mx, 2 * c.m),
                Trunc(a.shape[1] * c.m - 2 * c.my, 2 * c.m)>>}

\* get_best_shift(img): the set of <<shiftx, shifty>> it can return
get_best_shift(a) ==
    LET c == Moments(a)
    IN  IF c.m = 0
        THEN NanAsInt \X NanAsInt
        ELSE {<<Round(a.shape[2] * c.m - 2 * c.mx, 2 * c.m),
                Round(a.shape[1] * c.m - 2 * c.my, 2 * c.m)>>}

\* shift with the two translations exchanged in the matrix
shift_exchanged(a, sx, sy) == CvWarpAffine(a, sy, sx, a.shape[2], a.shape[1])

\* shift(img, sx, sy)
shift(a, sx, sy) == CvWarpAffine(a, sx, sy, a.shape[2], a.shape[1])

\* ToTensor, Normalize((0.1307,), (0.3081,)), float, unsqueeze: element
\* (v / 255 - 0.1307) / 0.3081 is kept as its numerator over den
Normalized(a) ==
    [shape |-> <<1, 1, a.shape[1], a.shape[2]>>,
     den |-> StdE4 * White,
     data |-> [i \in 1..a.shape[1] |->
                 [j \in 1..a.shape[2] |-> 10000 * a.data[i][j] - MeanE4 * White]]]

-----------------------------------------------------------------------------
(* Inputs. *)

\* shapes <<rows, cols>> of the opened image
InputShapes == {<<28, 28>>, <<40, 20>>}

\* 0-based rows and columns at which a drawn mask of h rows and w columns may
\* have foreground
SampleRows(h) == {0, 7, h - 8, h - 1}
SampleCols(w) == {0, 8, w - 1}

\* the binary masks of a shape that are drawn: at most MaxPixels foreground
\* pixels
MasksOf(shape) ==
    {Array(shape[1], shape[2],
           [i \in 1..shape[1] |-> [j \in 1..shape[2] |->
               IF <<i - 1, j - 1>> \in P THEN White ELSE 0]]) :
        P \in {Q \in SUBSET (SampleRows(shape[1]) \X SampleCols(shape[2])) :
                  Cardinality(Q) <= MaxPixels}}

\* 0-based rows and columns at which a drawn canvas may be non-zero, and the
\* intensities there
DotRows == {4, 13, 23}
DotCols == {4, 14, 23}
DotValues == {51, 255}

DotsAt(D, i, j) == {d \in D : d.at = <<i - 1, j - 1>>}

\* the canvases drawn for the aligner: at most MaxDots non-zero pixels, no
\* two at one place; the one with none is the all-zero canvas
Canvases ==
    LET Dot == [at : DotRows \X DotCols, v : DotValues]
        Choices == {D \in SUBSET Dot :
                        /\ Cardinality(D) <= MaxDots
                        /\ \A d, e \in D : d.at = e.at => d = e}
    IN  {Array(Side, Side,
               [i \in 1..Side |-> [j \in 1..Side |->
                   IF DotsAt(D, i, j) = {} THEN 0
                   ELSE (CHOOSE d \in DotsAt(D, i, j) : TRUE).v]]) :
            D \in Choices}

-----------------------------------------------------------------------------
(* preprocess_image. *)

Init ==
    /\ pc = "open"
    /\ original \in InputShapes
    /\ mask = Unset
    /\ img = Unset
    /\ rows = 0
    /\ cols = 0
    /\ rows_padding = <<0, 0>>
    /\ cols_padding = <<0, 0>>
    /\ shiftx = 0
    /\ shifty = 0
    /\ calls = <<>>
    /\ error = "none"
    /\ result = NoTensor

\* lines 15-22 with the resize to (28, 28) left out: the mask keeps the
\* shape of the opened image
ThresholdKeepsShape ==
    /\ pc = "open"
    /\ \E m \in MasksOf(original) : img' = m /\ mask' = m
    /\ pc' = "crop_top"
    /\ UNCHANGED <<original, rows, cols, rows_padding, cols_padding,
                   shiftx, shifty, calls, error, result>>

\* lines 15-22: whatever the opened image, cv2.resize(255-img, (28, 28)) and
\* the Otsu threshold leave a Side x Side array over {0, 255}; which one
\* depends on the pixels of the file
Threshold ==
    /\ pc = "open"
    /\ \E m \in MasksOf(<<Side, Side>>) : img' = m /\ mask' = m
    /\ pc' = "crop_top"
    /\ UNCHANGED <<original, rows, cols, rows_padding, cols_padding,
                   shiftx, shifty, calls, error, result>>

\* one evaluation of a trimming loop's condition and, if it holds, of its
\* body: indexing an axis of length 0 raises IndexError
TrimStep(here, next, axis, empty, trimmed) ==
    /\ pc = here
    /\ IF img.shape[axis] = 0
       THEN /\ pc' = "failed"
            /\ error' = "IndexError"
            /\ img' = img
       ELSE IF empty
       THEN /\ pc' = here
            /\ error' = error
            /\ img' = trimmed
       ELSE /\ pc' = next
            /\ error' = error
            /\ img' = img
    /\ UNCHANGED <<original, mask, rows, cols, rows_padding, cols_padding,
                   shiftx, shifty, calls, result>>

\* lines 25-26 with a loop that ends when no row is left:
\* while len(img) and np.sum(img[0]) == 0
CropTopStopsWhenEmpty ==
    /\ pc = "crop_top"
    /\ IF img.shape[1] > 0 /\ NpSum(img.data[1]) = 0
       THEN /\ pc' = "crop_top"
            /\ img' = DropFirstRow(img)
       ELSE /\ pc' = "crop_left"
            /\ img' = img
    /\ UNCHANGED <<original, mask, rows, cols, rows_padding, cols_padding,
                   shiftx, shifty, calls, error, result>>

\* lines 25-26 with a slice that drops nothing: img = img[0:]
CropTopKeepsRow ==
    TrimStep("crop_top", "crop_left", 1, NpSum(img.data[1]) = 0, img)

\* lines 25-26: while np.sum(img[0]) == 0: img = img[1:]
CropTop ==
    TrimStep("crop_top", "crop_left", 1,
             NpSum(img.data[1]) = 0, DropFirstRow(img))

\* lines 27-28: while np.sum(img[:, 0]) == 0: img = np.delete(img, 0, 1)
CropLeft ==
    TrimStep("crop_left", "crop_bottom", 2,
             NpSum(Column(img, 1)) = 0, DropFirstColumn(img))

\* lines 29-30: while np.sum(img[-1]) == 0: img = img[:-1]
CropBottom ==
    TrimStep("crop_bottom", "crop_right", 1,
             NpSum(img.data[img.shape[1]]) = 0, DropLastRow(img))

\* lines 31-32 with if for while: at most one column is deleted
CropRightOnce ==
    /\ pc = "crop_right"
    /\ pc' = "resize"
    /\ img' = IF NpSum(Column(img, img.shape[2])) = 0
              THEN DropLastColumn(img)
              ELSE img
    /\ UNCHANGED <<original, mask, rows, cols, rows_padding, cols_padding,
                   shiftx, shifty, calls, error, result>>

\* lines 31-32: while np.sum(img[:, -1]) == 0: img = np.delete(img, -1, 1)
CropRight ==
    TrimStep("crop_right", "resize", 2,
             NpSum(Column(img, img.shape[2])) = 0, DropLastColumn(img))

\* lines 35-45 with int(cols * factor): round left out
ResizedShapeCut(r, c) ==
    IF r > c
    THEN <<Target, Trunc(Target * c, r)>>
    ELSE <<Trunc(Target * r, c), Target>>

\* lines 35-45 without the cv2.resize calls: the new <<rows, cols>> for an
\* array of r rows and c columns
ResizedShape(r, c) ==
    IF r > c
    THEN <<Target, Round(Target * c, r)>>
    ELSE <<Round(Target * r, c), Target>>

\* lines 34-45: a zero in the size makes cv2.resize raise
Resize ==
    /\ pc = "resize"
    /\ LET to == ResizedShape(img.shape[1], img.shape[2])
       IN  /\ rows' = to[1]
           /\ cols' = to[2]
           /\ IF to[1] <= 0 \/ to[2] <= 0
              THEN /\ pc' = "failed"
                   /\ error' = "cv2.error"
                   /\ img' = img
              ELSE /\ pc' = "pad"
                   /\ error' = error
                   /\ img' = CvResize(img, to[2], to[1])
    /\ UNCHANGED <<original, mask, rows_padding, cols_padding,
                   shiftx, shifty, calls, result>>

\* lines 48-49 with floor on both sides
PaddingFloors(dim) == <<Floor(Side - dim, 2), Floor(Side - dim, 2)>>

\* lines 48-49 with floor before and ceil after
PaddingExchanged(dim) == <<Floor(Side - dim, 2), Ceil(Side - dim, 2)>>

\* lines 48-49: (int(math.ceil((28 - dim) / 2.0)), int(math.floor((28 - dim) / 2.0)))
Padding(dim) == <<Ceil(Side - dim, 2), Floor(Side - dim, 2)>>

\* lines 47-50
Pad ==
    /\ pc = "pad"
    /\ cols_padding' = Padding(cols)
    /\ rows_padding' = Padding(rows)
    /\ img' = NpPad(img, rows_padding', cols_padding')
    /\ pc' = "best_shift"
    /\ UNCHANGED <<original, mask, rows, cols, shiftx, shifty, calls,
                   error, result>>

\* line 53
BestShift ==
    /\ pc = "best_shift"
    /\ \E s \in get_best_shift(img) : shiftx' = s[1] /\ shifty' = s[2]
    /\ pc' = "shift"
    /\ UNCHANGED <<original, mask, img, rows, cols, rows_padding,
                   cols_padding, calls, error, result>>

\* the record of one shift(img, sx, sy) call
Call(a, sx, sy) == [src |-> a, sx |-> sx, sy |-> sy, dst |-> shift(a, sx, sy)]

\* lines 54-55
Shift ==
    /\ pc = "shift"
    /\ img' = shift(img, shiftx, shifty)
    /\ calls' = Append(calls, Call(img, shiftx, shifty))
    /\ pc' = "normalize"
    /\ UNCHANGED <<original, mask, rows, cols, rows_padding, cols_padding,
                   shiftx, shifty, error, result>>

\* lines 57-63
Normalize ==
    /\ pc = "normalize"
    /\ result' = Normalized(img)
    /\ pc' = "done"
    /\ UNCHANGED <<original, mask, img, rows, cols, rows_padding,
                   cols_padding, shiftx, shifty, calls, error>>

Next ==
    \/ Threshold
    \/ CropTop
    \/ CropLeft
    \/ CropBottom
    \/ CropRight
    \/ Resize
    \/ Pad
    \/ BestShift
    \/ Shift
    \/ Normalize

Spec == Init /\ [][Next]_vars

\* the trimming loops run on: nothing in them waits
LiveSpec == Spec /\ WF_vars(CropTop \/ CropLeft \/ CropBottom \/ CropRight)

-----------------------------------------------------------------------------
(* The aligner run twice: get_best_shift and shift on a drawn canvas, then *)
(* again on what shift returned.                                           *)

Passes == 2

InitAlign ==
    /\ pc = "align_best"
    /\ img \in Canvases
    /\ original = <<Side, Side>>
    /\ mask = Unset
    /\ rows = 0
    /\ cols = 0
    /\ rows_padding = <<0, 0>>
    /\ cols_padding = <<0, 0>>
    /\ shiftx = 0
    /\ shifty = 0
    /\ calls = <<>>
    /\ error = "none"
    /\ result = NoTensor

\* shiftx, shifty = get_best_shift(img)
AlignBest ==
    /\ pc = "align_best"
    /\ \E s \in get_best_shift(img) : shiftx' = s[1] /\ shifty' = s[2]
    /\ pc' = "align_shift"
    /\ UNCHANGED <<original, mask, img, rows, cols, rows_padding,
                   cols_padding, calls, error, result>>

\* img = shift(img, shiftx, shifty)
AlignShift ==
    /\ pc = "align_shift"
    /\ img' = shift(img, shiftx, shifty)
    /\ calls' = Append(calls, Call(img, shiftx, shifty))
    /\ pc' = IF Len(calls') < Passes THEN "align_best" ELSE "aligned"
    /\ UNCHANGED <<original, mask, rows, cols, rows_padding, cols_padding,
                   shiftx, shifty, error, result>>

NextAlign == AlignBest \/ AlignShift

SpecAlign == InitAlign /\ [][NextAlign]_vars

-----------------------------------------------------------------------------
(* Properties. *)

Cropping == {"crop_top", "crop_left", "crop_bottom", "crop_right"}
Padded == pc \in {"best_shift", "shift", "normalize", "done"}
Resized == pc = "pad" \/ Padded

\* the rows and the columns of an array that hold a non-zero pixel
FgRows(a) == {i \in 1..a.shape[1] : \E j \in 1..a.shape[2] : a.data[i][j] # 0}
FgCols(a) == {j \in 1..a.shape[2] : \E i \in 1..a.shape[1] : a.data[i][j] # 0}

Blank(a) == FgRows(a) = {}

Lowest(S) == CHOOSE x \in S : \A y \in S : x <= y
Highest(S) == CHOOSE x \in S : \A y \in S : y <= x

\* the bounding box of the foreground of a non-blank array
BBox(a) ==
    [top |-> Lowest(FgRows(a)), bottom |-> Highest(FgRows(a)),
     left |-> Lowest(FgCols(a)), right |-> Highest(FgCols(a))]

BoxRows(a) == BBox(a).bottom - BBox(a).top + 1
BoxCols(a) == BBox(a).right - BBox(a).left + 1

\* the part of an array inside a box
Inside(a, b) ==
    Array(b.bottom - b.top + 1, b.right - b.left + 1,
          [i \in 1..(b.bottom - b.top + 1) |->
              [j \in 1..(b.right - b.left + 1) |->
                  a.data[b.top + i - 1][b.left + j - 1]]])

\* the bounding box of the mask is the whole mask: cropping trims nothing
NoTrim ==
    /\ ~Blank(mask)
    /\ BoxRows(mask) = mask.shape[1]
    /\ BoxCols(mask) = mask.shape[2]

\* n is num / den (den > 0) rounded to the nearest integer, a tie to the even one
IsRound(n, num, den) ==
    /\ Abs(2 * (den * n - num)) <= den
    /\ Abs(2 * (den * n - num)) = den => n % 2 = 0

WellFormed(a, r, c) ==
    /\ a.shape = <<r, c>>
    /\ Len(a.data) = r
    /\ \A i \in 1..r : Len(a.data[i]) = c

\* C1: for every non-blank mask the pipeline does not fail, and whatever the
\* cropped shape, the padded grid and the shifted grid are 28 x 28: on each
\* axis both paddings are non-negative and pad_before + dim + pad_after = 28,
\* shift keeps the shape of its argument, and the tensor returned is
\* [1, 28, 28] under its batch dimension.
C1_Shape ==
    /\ (pc # "open" /\ ~Blank(mask)) => pc # "failed"
    /\ Padded =>
          /\ WellFormed(img, Side, Side)
          /\ \A p \in {rows_padding, cols_padding} : p[1] >= 0 /\ p[2] >= 0
          /\ rows_padding[1] + rows + rows_padding[2] = Side
          /\ cols_padding[1] + cols + cols_padding[2] = Side
    /\ \A k \in 1..Len(calls) : calls[k].dst.shape = calls[k].src.shape
    /\ pc = "done" =>
          /\ result.shape = <<1, 1, Side, Side>>
          /\ Len(result.data) = Side
          /\ \A i \in 1..Side : Len(result.data[i]) = Side

\* a call that returned its tensor for a crop that was not square
C1_Witness ==
    /\ pc = "done"
    /\ BoxRows(mask) # BoxCols(mask)
    /\ rows # cols
    /\ result.shape = <<1, 1, Side, Side>>

C3_AspectResize ==
    Resized =>
        LET R == BoxRows(mask)
            C == BoxCols(mask)
        IN  /\ R > C => rows = Target /\ IsRound(cols, Target * C, R)
            /\ C > R => cols = Target /\ IsRound(rows, Target * R, C)
            /\ R = C => rows = Target /\ cols = Target
            /\ rows \in 1..Target /\ cols \in 1..Target
            /\ Padded \/ WellFormed(img, rows, cols)

\* a tall crop resized, its width rounded from a tie (8 x 1: 2.5 columns)
C3_Witness ==
    /\ pc = "pad"
    /\ BoxRows(mask) = 8 /\ BoxCols(mask) = 1
    /\ rows = Target /\ cols = 2

\* C4 as claimed: a 40 x 20 image cropped with no border trimmed is resized
\* to 20 rows x 10 columns and padded by 9 and 9 on the column axis.
C4_InputAspect ==
    (Padded /\ original = <<40, 20>> /\ NoTrim) =>
        /\ rows = 20 /\ cols = 10
        /\ cols_padding = <<9, 9>>

\* C4 as the code has it: the resizer works from the shape of the crop of the
\* 28 x 28 mask, whatever the shape of the opened image; with no border
\* trimmed that is 28 x 28, resized to 20 x 20 and padded by 4 and 4 on both
\* axes.
C4_MaskAspect ==
    /\ pc \in Cropping => mask.shape = <<Side, Side>>
    /\ (Padded /\ NoTrim) =>
          /\ rows = Target /\ cols = Target
          /\ cols_padding = <<4, 4>>
          /\ rows_padding = <<4, 4>>

\* a 40 x 20 image whose mask was cropped with no border trimmed, padded
C4_Witness ==
    /\ pc = "best_shift"
    /\ original = <<40, 20>>
    /\ NoTrim
    /\ cols_padding = <<4, 4>>

\* the shift call moved no non-zero pixel off the canvas
KeepsMass(call) == Total(call.dst) = Total(call.src)

\* C5 as claimed: on every non-blank canvas, the aligner applied to its own
\* output computes the shift (0, 0) and leaves the grid unchanged.
C5_Idempotent ==
    (Len(calls) >= 2 /\ ~Blank(calls[1].src)) =>
        /\ calls[2].sx = 0 /\ calls[2].sy = 0
        /\ calls[2].dst = calls[1].dst

\* C5 as the code has it: the same, for the non-blank canvases from which
\* the first shift moves no non-zero pixel off the canvas.
C5_IdempotentIfKept ==
    (Len(calls) >= 2 /\ ~Blank(calls[1].src) /\ KeepsMass(calls[1])) =>
        /\ calls[2].src = calls[1].dst
        /\ calls[2].sx = 0 /\ calls[2].sy = 0
        /\ calls[2].dst = calls[1].dst

\* a canvas moved on both axes by the first pass, nothing lost, and run again
C5_Witness ==
    /\ Len(calls) >= 2
    /\ ~Blank(calls[1].src)
    /\ calls[1].sx # 0 /\ calls[1].sy # 0
    /\ KeepsMass(calls[1])
    /\ calls[2].dst = calls[1].dst

\* sx and sy are round(target - centroid) on a canvas of non-zero mass, the
\* target being t2 / 2 on both axes
ShiftIsRound(call, t2) ==
    LET c == Moments(call.src)
    IN  /\ IsRound(call.sx, t2 * c.m - 2 * c.mx, 2 * c.m)
        /\ IsRound(call.sy, t2 * c.m - 2 * c.my, 2 * c.m)

\* C6 as claimed: on a canvas of non-zero mass the shift applied on each axis
\* is round(13.5 - centroid).
C6_Target13_5 ==
    \A k \in 1..Len(calls) :
        ~Blank(calls[k].src) => ShiftIsRound(calls[k], 27)

\* C6 as the code has it: the shift is round(14 - centroid), the target
\* being rows / 2.0 = cols / 2.0 = 14.0 on a 28 x 28 canvas.
C6_Target14 ==
    \A k \in 1..Len(calls) :
        ~Blank(calls[k].src) =>
            /\ calls[k].src.shape = <<Side, Side>>
            /\ ShiftIsRound(calls[k], Side)

\* a canvas of non-zero mass shifted on both axes
C6_Witness ==
    /\ Len(calls) >= 1
    /\ ~Blank(calls[1].src)
    /\ calls[1].sx # 0 /\ calls[1].sy # 0

\* C7: on a canvas of zero mass the aligner shifts by (0, 0) and returns the
\* canvas unchanged; no undefined value reaches the translation.
C7_ZeroMassNoOp ==
    \A k \in 1..Len(calls) :
        Blank(calls[k].src) =>
            /\ calls[k].sx = 0 /\ calls[k].sy = 0
            /\ calls[k].dst = calls[k].src

\* C8: when the trimming of a non-blank mask is over, the first row, the
\* last row, the first column and the last column of the grid each hold a
\* foreground pixel, and the grid is the mask inside the bounding box of its
\* foreground: no foreground pixel was removed.
C8_TightCrop ==
    (pc = "resize" /\ ~Blank(mask)) =>
        /\ WellFormed(img, BoxRows(mask), BoxCols(mask))
        /\ NpSum(img.data[1]) > 0
        /\ NpSum(img.data[img.shape[1]]) > 0
        /\ NpSum(Column(img, 1)) > 0
        /\ NpSum(Column(img, img.shape[2])) > 0
        /\ img = Inside(mask, BBox(mask))
        /\ Total(img) = Total(mask)

\* a mask trimmed on all four sides
C8_Witness ==
    /\ pc = "resize"
    /\ ~Blank(mask)
    /\ BBox(mask).top > 1 /\ BBox(mask).left > 1
    /\ BBox(mask).bottom < Side /\ BBox(mask).right < Side
    /\ Cardinality(FgRows(mask)) > 1

\* rows and columns removed so far, while the call is trimming or has just
\* stopped
Trims == (mask.shape[1] - img.shape[1]) + (mask.shape[2] - img.shape[2])

\* C9: on every mask, blank or not, the trimming loops end (in the resize or
\* in the exception), after at most rows + cols removals.
C9_CropTerminates ==
    /\ [](pc \in Cropping \cup {"resize", "failed"} =>
              Trims <= mask.shape[1] + mask.shape[2])
    /\ (pc = "crop_top") ~> (pc \in {"resize", "failed"})

\* the trimming of a one-pixel mask over: 27 rows and 27 columns removed
C9_Witness == pc = "resize" /\ Trims = 2 * (Side - 1)

\* C10 as claimed: when 28 - dim is odd the content sits one unit closer to
\* the start of the axis than to its end; when it is even the paddings are
\* equal.
C10_TowardStart ==
    Padded =>
        /\ (Side - cols) % 2 = 1 => cols_padding[1] + 1 = cols_padding[2]
        /\ (Side - rows) % 2 = 1 => rows_padding[1] + 1 = rows_padding[2]
        /\ (Side - cols) % 2 = 0 => cols_padding[1] = cols_padding[2]
        /\ (Side - rows) % 2 = 0 => rows_padding[1] = rows_padding[2]

\* C10 as the code has it: pad_before is the ceiling and pad_after the floor
\* of (28 - dim) / 2, so when 28 - dim is odd pad_before = pad_after + 1 and
\* the content, which starts at index pad_before, sits one unit closer to
\* the end of the axis; when it is even the paddings are equal.
C10_TowardEnd ==
    Padded =>
        /\ \A a \in {<<rows, rows_padding>>, <<cols, cols_padding>>} :
              LET dim == a[1]
                  before == a[2][1]
                  after == a[2][2]
              IN  /\ 2 * before \in {Side - dim, Side - dim + 1}
                  /\ 2 * after \in {Side - dim, Side - dim - 1}
                  /\ (Side - dim) % 2 = 1 => before = after + 1
                  /\ (Side - dim) % 2 = 0 => before = after
        /\ \A i \in 1..Side, j \in 1..Side :
              (i <= rows_padding[1] \/ j <= cols_padding[1]) =>
                  calls # <<>> \/ img.data[i][j] = 0

\* a grid of odd width padded
C10_Witness ==
    /\ Padded
    /\ (Side - cols) % 2 = 1
    /\ cols_padding[1] = cols_padding[2] + 1

=============================================================================
